---- MODULE Spec2Model ----
(***************************************************************************)
(* Model of official/recommendation/ncf_main.py: the metric evaluator     *)
(* (evaluate_model: reshape, per-row argsort, top-K slice, Hit Ratio and  *)
(* NDCG) and the train/evaluate/log driver loop (run_ncf).                *)
(*                                                                         *)
(* Two specifications share the module:                                    *)
(*   SpecEval  one call of evaluate_model on a drawn prediction vector,    *)
(*             and re-evaluation after reordering a row's negatives;       *)
(*   Spec      the run_ncf loop, which calls the same evaluate_model.      *)
(*                                                                         *)
(* Numbers.  Scores are integers: only their order enters the ranking.     *)
(* HR and NDCG are kept as exact fractions [num, den]; the float quotient  *)
(* log(2)/log(r+2) is kept in millionths (LogGain), so float rounding of   *)
(* the sum is not modelled.                                                *)
(*                                                                         *)
(* np.argsort is called with its default kind ("quicksort"), which NumPy   *)
(* documents as not stable: the order of equal scores is not determined    *)
(* by the call.  ArgsortRow is therefore the set of all index orders that  *)
(* sort the row, and every evaluation picks one of them.  TopRow computes  *)
(* the same rankings top-down; TopRowIsArgsortTail checks that they agree. *)
(***************************************************************************)
EXTENDS Integers, Sequences, FiniteSets, TLC

\* _TOP_K is 10 in the source (line 49).  The ranking code is uniform in K;
\* the model scales K down so that rows wider than K can be enumerated.
TOP_K == 2
\* ncf_dataset.num_users ranges over 0..MaxUsers
MaxUsers == 2
\* scores range over 0..MaxScore
MaxScore == 1
\* the flat prediction vector has 1..MaxLen entries
MaxLen == 6
\* FLAGS.train_epochs ranges over 0..MaxEpochs, epochs_between_evals over 1..MaxEpochs
MaxEpochs == 2

None == "None"

\* optional values (a Python name that is None or unbound, or holds a value)
Nothing == <<>>
Some(x) == <<x>>
IsSome(o) == o # <<>>
Val(o) == o[1]

Scores == 0..MaxScore
Users == 0..MaxUsers
Predictions == UNION {[1..l -> Scores] : l \in 1..MaxLen}

\* np.log(2) / np.log(r + 2) for r = 0, 1, ..., in millionths (rounded)
GAIN_SCALE == 1000000
LogGain == <<1000000, 630930, 500000, 430677, 386853, 356207,
             333333, 315465, 301030, 289065, 278943, 270238>>

----------------------------------------------------------------------------
(* evaluate_model *)

Min(a, b) == IF a < b THEN a ELSE b

\* variant of ReshapeRaises: a ragged tail is dropped instead of raising
ReshapeRaises_truncating(flat, n) == n <= 0 \/ Len(flat) < n

\* .reshape(num_users, -1): a ValueError unless num_users > 0 divides the size;
\* otherwise row u, column c is flat element u*W + c (0-based)
ReshapeRaises(flat, n) == n <= 0 \/ Len(flat) % n # 0

Reshape(flat, n) ==
  LET W == Len(flat) \div n
  IN  [u \in 0..(n - 1) |-> [c \in 0..(W - 1) |-> flat[u * W + c + 1]]]

\* all orders of the column set S that put the scores of row in ascending order
RECURSIVE ArgsortCols(_, _)
ArgsortCols(row, S) ==
  IF S = {} THEN {<<>>}
  ELSE LET lows == {c \in S : \A d \in S : row[c] <= row[d]}
       IN  UNION {{<<c>> \o t : t \in ArgsortCols(row, S \ {c})} : c \in lows}

\* np.argsort of one row (default kind: order of equal scores not determined)
ArgsortRow(row) == ArgsortCols(row, DOMAIN row)

\* [-_TOP_K:] of one sorted row: its last min(_TOP_K, W) entries
LastTopK(p) == SubSeq(p, Len(p) - Min(TOP_K, Len(p)) + 1, Len(p))

\* np.flip(..., axis=1) of one row
Flip(s) == [i \in 1..Len(s) |-> s[Len(s) + 1 - i]]

\* The same set computed without enumerating whole sorting orders: the flipped
\* tail of an ascending order lists, from the top, a column of highest score
\* among those not yet listed (TopRowIsArgsortTail checks the two agree).
RECURSIVE RankCols(_, _, _)
RankCols(row, S, k) ==
  IF k = 0 THEN {<<>>}
  ELSE LET highs == {c \in S : \A d \in S : row[d] <= row[c]}
       IN  UNION {{<<c>> \o t : t \in RankCols(row, S \ {c}, k - 1)} : c \in highs}

\* np.flip(np.argsort(row)[-_TOP_K:]) for one row: the possible rankings.
\* The entry at position r+1 is the column ranked r.
TopRow(row) == RankCols(row, DOMAIN row, Min(TOP_K, Cardinality(DOMAIN row)))

\* the rankings of one row as the code writes them: argsort, tail, flip
TopRowByArgsort(row) == {Flip(LastTopK(p)) : p \in ArgsortRow(row)}

\* the possible values of top_indicies (lines 106-107): a ranking per row
TopIndicies(m) ==
  LET all == UNION {TopRow(m[u]) : u \in DOMAIN m}
  IN  {t \in [DOMAIN m -> all] : \A u \in DOMAIN m : t[u] \in TopRow(m[u])}

\* variant of HitIndicies: the hit test compares with column 1
HitIndicies_column1(top) ==
  {<<u, r>> \in (DOMAIN top) \X (0..(TOP_K - 1)) :
      r + 1 \in DOMAIN top[u] /\ top[u][r + 1] = 1}

\* variant of HitIndicies: np.greater_equal in place of np.equal
HitIndicies_greater_equal(top) ==
  {<<u, r>> \in (DOMAIN top) \X (0..(TOP_K - 1)) :
      r + 1 \in DOMAIN top[u] /\ top[u][r + 1] >= 0}

\* np.argwhere(np.equal(top_indicies, 0)): the (row, position) pairs, 0-based
HitIndicies(top) ==
  {<<u, r>> \in (DOMAIN top) \X (0..(TOP_K - 1)) :
      r + 1 \in DOMAIN top[u] /\ top[u][r + 1] = 0}

\* hit_indicies.shape[0] / num_users
HitRatio(hits, n) == [num |-> Cardinality(hits), den |-> n]

RECURSIVE SumGain(_)
SumGain(hits) ==
  IF hits = {} THEN 0
  ELSE LET h == CHOOSE x \in hits : TRUE
       IN  LogGain[h[2] + 1] + SumGain(hits \ {h})

RECURSIVE SumGainOfRowIndex(_)
SumGainOfRowIndex(hits) ==
  IF hits = {} THEN 0
  ELSE LET h == CHOOSE x \in hits : TRUE
       IN  LogGain[h[1] + 1] + SumGainOfRowIndex(hits \ {h})

\* variant of Ndcg: the discount reads hit_indicies[:, 0], the row index
Ndcg_row_index(hits, n) == [num |-> SumGainOfRowIndex(hits), den |-> n]

\* np.sum(np.log(2) / np.log(hit_indicies[:, 1] + 2)) / num_users
Ndcg(hits, n) == [num |-> SumGain(hits), den |-> n]

\* the outcomes of one call on the concatenated predictions
evaluate_model(flat, n) ==
  IF ReshapeRaises(flat, n)
  THEN {[status |-> "ValueError", predicted_scores_by_user |-> None,
         top_indicies |-> None, hit_indicies |-> None,
         eval_results |-> None]}
  ELSE LET m == Reshape(flat, n)
       IN  {[status |-> "ok", predicted_scores_by_user |-> m,
             top_indicies |-> top, hit_indicies |-> HitIndicies(top),
             eval_results |-> [HR |-> HitRatio(HitIndicies(top), n),
                               NDCG |-> Ndcg(HitIndicies(top), n)]]
            : top \in TopIndicies(m)}

----------------------------------------------------------------------------
(* state *)

VARIABLES
  num_users,             \* ncf_dataset.num_users
  predictions,           \* SpecEval: the concatenated prediction vector
  ev,                    \* SpecEval: outcome of evaluate_model on predictions
                         \*   (status "not_called" before the call)
  ref,                   \* SpecEval: eval_results of an earlier evaluation of the same
                         \*   matrix with negatives in another order, if any
  flags,                 \* FLAGS: train_epochs, epochs_between_evals, hr_threshold
  pc,                    \* position of run_ncf
  total_training_cycle,  \* run_ncf local
  cycle_index,           \* run_ncf loop variable
  eval_results,          \* run_ncf local: the last value returned by evaluate_model, if any
  num_scores,            \* size of the vector estimator.predict produced last, if any
  calls,                 \* external calls made so far: [op, cycle, ok]
  logged,                \* what benchmark_logger.log_evaluation_result received
  consulted              \* the threshold checks made: [cycle, ncalls]

evalVars == <<predictions, ev, ref>>
driverVars == <<flags, pc, total_training_cycle, cycle_index, eval_results,
                num_scores, calls, logged, consulted>>
vars == <<num_users, predictions, ev, ref, flags, pc, total_training_cycle,
          cycle_index, eval_results, num_scores, calls, logged, consulted>>

----------------------------------------------------------------------------
(* SpecEval: the evaluator on its own *)

\* the flat vector with columns i and j of row u exchanged
SwapCols(flat, n, u, i, j) ==
  LET W == Len(flat) \div n
  IN  [x \in 1..Len(flat) |->
         IF x = u * W + i + 1 THEN flat[u * W + j + 1]
         ELSE IF x = u * W + j + 1 THEN flat[u * W + i + 1]
         ELSE flat[x]]

NotCalled ==
  [status |-> "not_called", predicted_scores_by_user |-> None,
   top_indicies |-> None, hit_indicies |-> None, eval_results |-> None]

InitEval ==
  /\ num_users \in Users
  /\ predictions \in Predictions
  /\ ev = NotCalled
  /\ ref = Nothing
  /\ flags = [train_epochs |-> 0, epochs_between_evals |-> 1, hr_threshold |-> Nothing]
  /\ pc = "idle"
  /\ total_training_cycle = 0
  /\ cycle_index = 0
  /\ eval_results = Nothing
  /\ num_scores = Nothing
  /\ calls = <<>>
  /\ logged = <<>>
  /\ consulted = <<>>

\* one call of evaluate_model (lines 98-123) on the current predictions
EvaluateModel ==
  /\ pc = "idle"
  /\ ev.status = "not_called"
  /\ ev' \in evaluate_model(predictions, num_users)
  /\ UNCHANGED <<num_users, predictions, ref>>
  /\ UNCHANGED driverVars

\* after an evaluation the upstream dataset hands over the same rows with two
\* neighbouring negatives (columns i, i+1 >= 1) of one row exchanged; column 0
\* stays the true item.  Repeated, this reaches every reordering of a row's
\* negatives; ref keeps the result of the evaluation before the exchange.
PermuteNegatives ==
  /\ pc = "idle"
  /\ ev.status = "ok"
  /\ \E u \in 0..(num_users - 1) :
       \E i \in 1..((Len(predictions) \div num_users) - 2) :
          predictions' = SwapCols(predictions, num_users, u, i, i + 1)
  /\ ref' = Some(ev.eval_results)
  /\ ev' = NotCalled
  /\ UNCHANGED num_users
  /\ UNCHANGED driverVars

NextEval == EvaluateModel \/ PermuteNegatives

SpecEval == InitEval /\ [][NextEval]_vars

----------------------------------------------------------------------------
(* Spec: run_ncf *)

\* FLAGS.hr_threshold: not passed (None), or a fraction
HrThresholds == {Nothing, Some([num |-> 1, den |-> 2]), Some([num |-> 1, den |-> 1])}

Flags ==
  [train_epochs : 0..MaxEpochs, epochs_between_evals : 1..MaxEpochs,
   hr_threshold : HrThresholds]

\* a >= b for fractions with positive denominators
FracGeq(a, b) == a.num * b.den >= b.num * a.den

\* model_helpers.past_stop_threshold(stop_threshold, eval_metric)
past_stop_threshold(stop_threshold, eval_metric) ==
  IF ~IsSome(stop_threshold) THEN FALSE
  ELSE FracGeq(eval_metric, Val(stop_threshold))

\* variant of TotalTrainingCycle: one cycle per epoch
TotalTrainingCycle_per_epoch(f) == f.train_epochs

\* FLAGS.train_epochs // FLAGS.epochs_between_evals
TotalTrainingCycle(f) == f.train_epochs \div f.epochs_between_evals

\* variant of AfterTrain: a failed train call is tried again
AfterTrain_retry(ok) == IF ok THEN "evaluate" ELSE "train"

\* where run_ncf goes when estimator.train returns (ok) or raises
AfterTrain(ok) == IF ok THEN "evaluate" ELSE "raised"

\* where run_ncf goes when evaluate_model returns (ok) or raises
AfterEvaluate(ok) == IF ok THEN "log" ELSE "raised"

\* variant of AfterThreshold: the break is missing
AfterThreshold_no_break(stop, cycle, total) ==
  IF cycle + 1 < total THEN "train" ELSE "done"

\* the end of the loop body: break, or the next iteration of range(total)
AfterThreshold(stop, cycle, total) ==
  IF stop THEN "done"
  ELSE IF cycle + 1 < total THEN "train" ELSE "done"

\* what the evaluate step of the loop can observe: estimator.predict raises, or
\* it yields a vector and evaluate_model returns or raises on it
EvaluateOutcomes(n) ==
  {[status |-> "PredictError", num_scores |-> Nothing, eval_results |-> Nothing]}
  \cup UNION {{[status |-> o.status, num_scores |-> Some(Len(flat)),
                eval_results |-> IF o.status = "ok" THEN Some(o.eval_results)
                                 ELSE Nothing]
               : o \in evaluate_model(flat, n)} : flat \in Predictions}

\* EvaluateOutcomes tabulated once for every user count: <<n, outcome>>
EvaluateTable == UNION {{<<n, o>> : o \in EvaluateOutcomes(n)} : n \in Users}

Init ==
  /\ num_users \in Users
  /\ predictions = <<>>
  /\ ev = NotCalled
  /\ ref = Nothing
  /\ flags \in Flags
  /\ pc = "run_ncf"
  /\ total_training_cycle = 0
  /\ cycle_index = 0
  /\ eval_results = Nothing
  /\ num_scores = Nothing
  /\ calls = <<>>
  /\ logged = <<>>
  /\ consulted = <<>>

\* lines 161-223: set-up, total_training_cycle, entry of the for loop
RunNcf ==
  /\ pc = "run_ncf"
  /\ total_training_cycle' = TotalTrainingCycle(flags)
  /\ cycle_index' = 0
  /\ pc' = IF TotalTrainingCycle(flags) > 0 THEN "train" ELSE "done"
  /\ UNCHANGED <<num_users, flags, eval_results, num_scores, calls, logged, consulted>>
  /\ UNCHANGED evalVars

\* line 228: estimator.train returns or raises
Train ==
  /\ pc = "train"
  /\ \E ok \in BOOLEAN :
       /\ calls' = Append(calls, [op |-> "train", cycle |-> cycle_index, ok |-> ok])
       /\ pc' = AfterTrain(ok)
  /\ UNCHANGED <<num_users, flags, total_training_cycle, cycle_index, eval_results,
                 num_scores, logged, consulted>>
  /\ UNCHANGED evalVars

\* lines 231-232: evaluate_model(estimator, ncf_dataset, get_pred_input_fn())
Evaluate ==
  /\ pc = "evaluate"
  /\ \E e \in EvaluateTable :
       LET o == e[2]
       IN  /\ e[1] = num_users
           /\ calls' = Append(calls, [op |-> "evaluate", cycle |-> cycle_index,
                                      ok |-> (o.status = "ok")])
           /\ num_scores' = o.num_scores
           /\ eval_results' = IF o.status = "ok" THEN o.eval_results ELSE eval_results
           /\ pc' = AfterEvaluate(o.status = "ok")
  /\ UNCHANGED <<num_users, flags, total_training_cycle, cycle_index, logged, consulted>>
  /\ UNCHANGED evalVars

\* line 235: benchmark_logger.log_evaluation_result(eval_results)
LogEvaluationResult ==
  /\ pc = "log"
  /\ calls' = Append(calls, [op |-> "log", cycle |-> cycle_index, ok |-> TRUE])
  /\ logged' = Append(logged, Val(eval_results))
  /\ pc' = "threshold"
  /\ UNCHANGED <<num_users, flags, total_training_cycle, cycle_index, eval_results,
                 num_scores, consulted>>
  /\ UNCHANGED evalVars

\* lines 237-245: hr = eval_results[_HR_KEY]; break if past the threshold
PastStopThreshold ==
  /\ pc = "threshold"
  /\ consulted' = Append(consulted, [cycle |-> cycle_index, ncalls |-> Len(calls)])
  /\ LET stop == past_stop_threshold(flags.hr_threshold, Val(eval_results).HR)
     IN  /\ pc' = AfterThreshold(stop, cycle_index, total_training_cycle)
         /\ cycle_index' = IF AfterThreshold(stop, cycle_index, total_training_cycle)
                              = "train"
                           THEN cycle_index + 1 ELSE cycle_index
  /\ UNCHANGED <<num_users, flags, total_training_cycle, eval_results, num_scores,
                 calls, logged>>
  /\ UNCHANGED evalVars

Next == RunNcf \/ Train \/ Evaluate \/ LogEvaluationResult \/ PastStopThreshold

Spec == Init /\ [][Next]_vars

----------------------------------------------------------------------------
(* helpers of the properties *)

RECURSIVE SumOver(_, _)
SumOver(f, S) ==
  IF S = {} THEN 0
  ELSE LET x == CHOOSE y \in S : TRUE
       IN  f[x] + SumOver(f, S \ {x})

\* the evaluator has been called on the current predictions
Called == ev.status # "not_called"

\* the row width of the current predictions (when num_users divides their size)
Width == Len(predictions) \div num_users

Divisible == num_users > 0 /\ Len(predictions) % num_users = 0

Rows == 0..(num_users - 1)

\* the positions (1-based: rank + 1) at which row u of the ranking lists column 0
TruePositions(u) == {p \in DOMAIN ev.top_indicies[u] : ev.top_indicies[u][p] = 0}

RowHit(u) == TruePositions(u) # {}

\* log(2)/log(r+2), in millionths, of the true item's rank r in row u; 0 without a hit
RowGain(u) ==
  IF RowHit(u) THEN LogGain[CHOOSE p \in TruePositions(u) : TRUE] ELSE 0

\* columns of row u tied with the true item
TiedWithTrue(u) ==
  {c \in 1..(Width - 1) :
     ev.predicted_scores_by_user[u][c] = ev.predicted_scores_by_user[u][0]}

\* the literal argsort/tail/flip pipeline and the direct ranking give the same
\* possible rankings for every row of the current predictions
TopRowIsArgsortTail ==
  Divisible =>
    \A u \in Rows :
       TopRow(Reshape(predictions, num_users)[u])
         = TopRowByArgsort(Reshape(predictions, num_users)[u])

----------------------------------------------------------------------------
(* the evaluator's properties, under SpecEval *)

\* C1: for a matrix of num_users rows of width W >= top_k the evaluator returns
\* (no error), and the Hit Ratio it returns is the number of rows whose ranking
\* lists column 0, divided by num_users; rows without a hit count 0.
C1_HitRatio ==
  (Called /\ Divisible /\ Width >= TOP_K) =>
     /\ ev.status = "ok"
     /\ ev.eval_results.HR =
          [num |-> Cardinality({u \in Rows : RowHit(u)}), den |-> num_users]

\* a two-row matrix wider than top_k with one row hit and one row missed
C1_Witness ==
  /\ ev.status = "ok"
  /\ num_users = 2
  /\ Width > TOP_K
  /\ RowHit(0)
  /\ ~RowHit(1)
  /\ ev.eval_results.HR = [num |-> 1, den |-> 2]

\* C2: the NDCG returned is the sum over rows of the row's contribution divided
\* by num_users: log(2)/log(r+2) for a true item at 0-based rank r (exactly 1
\* for r = 0), and 0 for a row whose true item is not in the top-K.
C2_Ndcg ==
  ev.status = "ok" =>
     /\ ev.eval_results.NDCG =
          [num |-> SumOver([u \in Rows |-> RowGain(u)], Rows), den |-> num_users]
     /\ \A u \in Rows : 1 \in TruePositions(u) => RowGain(u) = GAIN_SCALE

\* two rows hit at ranks 0 and 1: NDCG = (1 + log(2)/log(3)) / 2
C2_Witness ==
  /\ ev.status = "ok"
  /\ num_users = 2
  /\ Width > TOP_K
  /\ TruePositions(0) = {1}
  /\ TruePositions(1) = {2}
  /\ ev.eval_results.NDCG = [num |-> 1630930, den |-> 2]

\* C3: every row's ranking is in descending order of score, with equal scores
\* in ascending column order, and lists the columns that come first in that
\* order; so a true item tied with negatives is ranked ahead of all of them.
C3_TieBreakAscendingIndex ==
  ev.status = "ok" =>
    \A u \in Rows :
      LET row == ev.predicted_scores_by_user[u]
          top == ev.top_indicies[u]
          Ahead(c, d) == row[c] > row[d] \/ (row[c] = row[d] /\ c < d)
      IN  /\ \A p, q \in DOMAIN top : p < q => Ahead(top[p], top[q])
          /\ \A c \in DOMAIN row :
               (\A p \in DOMAIN top : top[p] # c) =>
                  \A p \in DOMAIN top : Ahead(top[p], c)

\* C4 (under Spec): when the size of the predicted vector is not divisible by
\* num_users, the evaluate call raises: it returns nothing, the driver ends in
\* the error, and nothing is handed to the logger for that cycle.
C4_ShapeMismatchIsFatal ==
  (/\ Len(calls) > 0
   /\ calls[Len(calls)].op = "evaluate"
   /\ IsSome(num_scores)
   /\ num_users > 0
   /\ Val(num_scores) % num_users # 0) =>
     /\ ~calls[Len(calls)].ok
     /\ pc = "raised"
     /\ Len(logged) = calls[Len(calls)].cycle
     /\ \A j \in DOMAIN calls : calls[j].op = "log" => calls[j].cycle < cycle_index

\* a ragged vector in the second cycle, after the first cycle's result was logged
C4_Witness ==
  /\ pc = "raised"
  /\ Len(calls) = 5
  /\ calls[5].op = "evaluate"
  /\ num_users = 2
  /\ IsSome(num_scores)
  /\ Val(num_scores) % 2 = 1
  /\ Len(logged) = 1

\* C5: with a row width below top_k, or a non-positive num_users, the evaluator
\* ends in an error and returns no HR/NDCG.
C5_NarrowRowsAreFatal ==
  (Called /\ (num_users <= 0 \/ (Divisible /\ Width < TOP_K))) =>
     ev.status # "ok"

\* C6: every row contributes at most one hit, so hits <= num_users and
\* 0 <= NDCG <= Hit Ratio <= 1, ties included.
C6_MetricsInUnitInterval ==
  ev.status = "ok" =>
     /\ \A u \in Rows : Cardinality(TruePositions(u)) <= 1
     /\ \A h \in ev.hit_indicies : h[1] \in Rows
     /\ \A g, h \in ev.hit_indicies : g[1] = h[1] => g = h
     /\ Cardinality(ev.hit_indicies) <= num_users
     /\ ev.eval_results.HR.den = num_users
     /\ ev.eval_results.NDCG.den = num_users
     /\ 0 <= ev.eval_results.HR.num
     /\ ev.eval_results.HR.num <= ev.eval_results.HR.den
     /\ 0 <= ev.eval_results.NDCG.num
     /\ ev.eval_results.NDCG.num <= ev.eval_results.HR.num * GAIN_SCALE

\* a row wider than top_k whose true item ties with a negative and is hit
\* below the top rank, next to a row without a hit
C6_Witness ==
  /\ ev.status = "ok"
  /\ num_users = 2
  /\ Width > TOP_K
  /\ TiedWithTrue(0) # {}
  /\ TruePositions(0) = {2}
  /\ ~RowHit(1)
  /\ ev.eval_results.NDCG.num < ev.eval_results.HR.num * GAIN_SCALE

----------------------------------------------------------------------------
(* the driver's properties, under Spec *)

TotalCycles == flags.train_epochs \div flags.epochs_between_evals

CycleOps == <<"train", "evaluate", "log">>

\* some logged Hit Ratio reached the configured threshold
ThresholdMet ==
  /\ IsSome(flags.hr_threshold)
  /\ \E i \in DOMAIN logged : FracGeq(logged[i].HR, Val(flags.hr_threshold))

Failed == \E j \in DOMAIN calls : ~calls[j].ok

\* C8: the external calls are a prefix of (train, evaluate, log) repeated
\* total_cycles = train_epochs // epochs_between_evals times, each call made
\* after the one before it returned; train runs at most total_cycles times; a
\* run without early stop or failure makes exactly total_cycles cycles.
C8_CallSequence ==
  /\ \A j \in DOMAIN calls :
       /\ calls[j].op = CycleOps[((j - 1) % 3) + 1]
       /\ calls[j].cycle = (j - 1) \div 3
       /\ j > 1 => calls[j - 1].ok
  /\ Len(calls) <= 3 * TotalCycles
  /\ Cardinality({j \in DOMAIN calls : calls[j].op = "train"}) <= TotalCycles
  /\ (pc = "done" /\ ~ThresholdMet) => Len(calls) = 3 * TotalCycles
  /\ (pc \in {"run_ncf", "train", "evaluate", "log", "threshold"}) => ~Failed

\* a full run of at least two cycles that no threshold cut short
C8_Witness ==
  /\ pc = "done"
  /\ TotalCycles >= 2
  /\ ~ThresholdMet
  /\ Len(calls) = 3 * TotalCycles
  /\ flags.epochs_between_evals = 1

\* C9: with a threshold set, the loop ends after the first cycle whose Hit
\* Ratio is >= the threshold: that cycle's result is logged and no call
\* follows; the threshold is consulted once per cycle, after its evaluation
\* and logging; without a threshold the loop never ends early.
C9_EarlyStop ==
  /\ \A i \in DOMAIN logged :
       (IsSome(flags.hr_threshold)
          /\ FracGeq(logged[i].HR, Val(flags.hr_threshold))) =>
            /\ i = Len(logged)
            /\ Len(calls) = 3 * i
            /\ calls[3 * i] = [op |-> "log", cycle |-> i - 1, ok |-> TRUE]
            /\ pc \in {"threshold", "done"}
  /\ \A k \in DOMAIN consulted :
       /\ consulted[k].cycle = k - 1
       /\ consulted[k].ncalls = 3 * k
       /\ calls[3 * k] = [op |-> "log", cycle |-> k - 1, ok |-> TRUE]
  /\ Len(consulted) <= Len(logged)
  /\ (pc = "done" /\ Len(calls) < 3 * TotalCycles) =>
        /\ IsSome(flags.hr_threshold)
        /\ Len(logged) > 0
        /\ FracGeq(logged[Len(logged)].HR, Val(flags.hr_threshold))
        /\ Len(consulted) = Len(logged)

\* the first of two cycles meets the threshold exactly (HR = 1/2 = threshold):
\* its result is logged and the run is over after three calls
C9_Witness ==
  /\ pc = "done"
  /\ TotalCycles = 2
  /\ flags.hr_threshold = Some([num |-> 1, den |-> 2])
  /\ Len(logged) = 1
  /\ logged[1].HR = [num |-> 1, den |-> 2]
  /\ Len(calls) = 3

\* C10: a failed train or evaluate call is the last call of the run: it is not
\* made again, no later cycle runs, and nothing is logged for its cycle.
C10_NoRetry ==
  /\ \A j \in DOMAIN calls :
       ~calls[j].ok =>
          /\ j = Len(calls)
          /\ calls[j].op \in {"train", "evaluate"}
          /\ pc = "raised"
          /\ Len(logged) = calls[j].cycle
          /\ Len(consulted) = calls[j].cycle
  /\ pc = "raised" => Failed

\* train fails in the second cycle, after the first cycle was logged
C10_Witness ==
  /\ pc = "raised"
  /\ Len(calls) = 4
  /\ calls[4] = [op |-> "train", cycle |-> 1, ok |-> FALSE]
  /\ Len(logged) = 1

====
